---- MODULE Spec2Model ----
(***************************************************************************)
(* Model of craft_planner.py: inventory states, compiled recipes           *)
(* (make_checker / make_effector / make_goal_checker), the successor       *)
(* generator graph(), the heuristic() policy and the best-first search()   *)
(* with its path reconstruction.                                           *)
(*                                                                         *)
(* Two specifications share the variables:                                 *)
(*   Spec      - one invocation of search() on one of the catalogs below;  *)
(*   SpecRules - check()/effect() applied to State objects held in an      *)
(*               object store (Python reference semantics).                *)
(***************************************************************************)
EXTENDS Integers, Sequences, FiniteSets, TLC

VARIABLES
    sc,           \* which catalog / start / goal / heuristic is being run
    pc,           \* position in search(): "loop", "for", "trace", "done"
    h,            \* the heap: set of entries [prio, st, g]
    came_from,    \* State -> <<None,"start">> or <<pred, action, cost>>
    cost_so_far,  \* State -> cost
    current,      \* state popped in this iteration
    ri,           \* index in all_recipes the generator graph(current) is at
    end_state,    \* goal state found, or None
    failed,       \* the 'failed' flag
    path,         \* the list built by the reconstruction loop
    cost,         \* the total summed by the reconstruction loop
    ptr,          \* the came_from entry the reconstruction loop is at
    iterations,   \* the 'iterations' counter
    max_heap,     \* the 'max_heap' statistic
    result,       \* how search() ended: "running", "plan", "None",
                  \* "IndexError", "KeyError"
    popped,       \* history: the heap entry behind 'current'
    last,         \* history: what the last step of the loop did
    enqueued,     \* history: the states that were ever pushed on the heap
    store,        \* SpecRules: the State objects allocated so far
    lastApp       \* SpecRules: the last application of effect()

vars == <<sc, pc, h, came_from, cost_so_far, current, ri, end_state, failed,
          path, cost, ptr, iterations, max_heap, result, popped, last,
          enqueued, store, lastApp>>

searchVars == <<pc, h, came_from, cost_so_far, current, ri, end_state,
                failed, path, cost, ptr, iterations, max_heap, result,
                popped, last, enqueued>>

-----------------------------------------------------------------------------
(* Bounds of the model *)

\* search() iterations explored before the budget is taken to have run out
MaxIter == 30
\* largest count of an item in a start inventory drawn for SpecRules
MaxStart == 1
\* State objects SpecRules allocates
MaxObjs == 4

-----------------------------------------------------------------------------
(* Python values *)

None == "None"

\* math.inf, numbers and a raised KeyError as results of heuristic()
Inf == [kind |-> "inf", v |-> 0]
KeyErr == [kind |-> "KeyError", v |-> 0]
Num(n) == [kind |-> "num", v |-> n]

\* 'sub in s' for Python strings
StrIn(sub, s) ==
    \E i \in 1..(Len(s) - Len(sub) + 1) : SubSeq(s, i, i + Len(sub) - 1) = sub

Range(f) == {f[x] : x \in DOMAIN f}

\* a dict literal with no entries
EmptyDict == [k \in {} |-> 0]

\* a State with every item of 'items' at 0, then .update(initial)
MkState(items, initial) ==
    [k \in Range(items) |-> IF k \in DOMAIN initial THEN initial[k] ELSE 0]

-----------------------------------------------------------------------------
(* Catalogs: the Crafting data search() is run on.  Each has the item list *)
(* (in the order the State keeps its keys), the initial inventory, the     *)
(* goal, the recipes in the order of all_recipes, and the heuristic passed *)
(* to search(): "zero" is the constant-zero bias, "repo" is heuristic().   *)

\* Crafting['Recipes'] entries: name and rule
R(name, rule) == [name |-> name, rule |-> rule]

\* the end-to-end example: chop, then craft plank
ExampleItems == <<"wood", "plank">>
ExampleRecipes == <<
    R("chop", [Produces |-> ("wood" :> 1), Time |-> 1]),
    R("craft plank", [Consumes |-> ("wood" :> 1),
                      Produces |-> ("plank" :> 1), Time |-> 1]) >>
ExampleGoal == ("plank" :> 1)

\* a state reachable by a dear direct recipe and by a cheaper detour
DetourItems == <<"x", "a", "b", "g">>
DetourRecipes == <<
    R("slow", [Consumes |-> ("x" :> 1), Produces |-> ("a" :> 1), Time |-> 5]),
    R("step1", [Consumes |-> ("x" :> 1), Produces |-> ("b" :> 1), Time |-> 1]),
    R("step2", [Consumes |-> ("b" :> 1), Produces |-> ("a" :> 1), Time |-> 1]),
    R("finish", [Consumes |-> ("a" :> 1), Produces |-> ("g" :> 1),
                 Time |-> 10]) >>

\* the goal is one recipe away, and the recipe takes 10000
DearItems == <<"x", "g">>
DearRecipes == <<
    R("big", [Consumes |-> ("x" :> 1), Produces |-> ("g" :> 1),
              Time |-> 10000]) >>

\* finitely many reachable states, none of them a goal state
BarrenItems == <<"x", "y", "g">>
BarrenRecipes == <<
    R("burn", [Consumes |-> ("x" :> 1), Produces |-> ("y" :> 1),
               Time |-> 1]) >>

\* the Minecraft items heuristic() reads, and the first recipes of the game
CraftItems == <<"bench", "cart", "coal", "cobble", "furnace", "ingot",
                "iron_axe", "iron_pickaxe", "ore", "plank", "rail", "stick",
                "stone_axe", "stone_pickaxe", "wood", "wooden_axe",
                "wooden_pickaxe">>
CraftRecipes == <<
    R("punch for wood", [Produces |-> ("wood" :> 1), Time |-> 4]),
    R("craft plank", [Consumes |-> ("wood" :> 1),
                      Produces |-> ("plank" :> 4), Time |-> 1]),
    R("craft stick", [Consumes |-> ("plank" :> 2),
                      Produces |-> ("stick" :> 4), Time |-> 1]),
    R("craft bench", [Consumes |-> ("plank" :> 4),
                      Produces |-> ("bench" :> 1), Time |-> 1]),
    R("craft wooden_pickaxe at bench",
      [Requires |-> {"bench"},
       Consumes |-> ("plank" :> 3 @@ "stick" :> 2),
       Produces |-> ("wooden_pickaxe" :> 1), Time |-> 1]),
    R("wooden_pickaxe for cobble",
      [Requires |-> {"wooden_pickaxe"},
       Produces |-> ("cobble" :> 1), Time |-> 4]),
    R("stone_pickaxe for cobble",
      [Requires |-> {"stone_pickaxe"},
       Produces |-> ("cobble" :> 1), Time |-> 2]) >>

\* rules of every shape: no sections, Requires only, Consumes only, both,
\* and an item that is consumed and produced by the same rule
ShapeItems == <<"bench", "wood", "plank">>
ShapeRecipes == <<
    R("punch", [Produces |-> ("wood" :> 1), Time |-> 4]),
    R("saw", [Requires |-> {"bench"}, Consumes |-> ("wood" :> 1),
              Produces |-> ("plank" :> 2), Time |-> 1]),
    R("split", [Consumes |-> ("plank" :> 2),
                Produces |-> ("plank" :> 1 @@ "wood" :> 1), Time |-> 1]),
    R("polish", [Requires |-> {"bench", "plank"},
                 Produces |-> ("bench" :> 1), Time |-> 2]) >>

\* the recipes of the Minecraft crafting data heuristic() is written for
FullRecipes == <<
    R("craft wooden_pickaxe at bench",
      [Requires |-> {"bench"}, Consumes |-> ("plank" :> 3 @@ "stick" :> 2),
       Produces |-> ("wooden_pickaxe" :> 1), Time |-> 1]),
    R("craft stone_pickaxe at bench",
      [Requires |-> {"bench"}, Consumes |-> ("cobble" :> 3 @@ "stick" :> 2),
       Produces |-> ("stone_pickaxe" :> 1), Time |-> 1]),
    R("wooden_pickaxe for coal",
      [Requires |-> {"wooden_pickaxe"}, Produces |-> ("coal" :> 1),
       Time |-> 4]),
    R("iron_pickaxe for ore",
      [Requires |-> {"iron_pickaxe"}, Produces |-> ("ore" :> 1), Time |-> 2]),
    R("wooden_axe for wood",
      [Requires |-> {"wooden_axe"}, Produces |-> ("wood" :> 1), Time |-> 2]),
    R("craft plank", [Consumes |-> ("wood" :> 1),
                      Produces |-> ("plank" :> 4), Time |-> 1]),
    R("craft stick", [Consumes |-> ("plank" :> 2),
                      Produces |-> ("stick" :> 4), Time |-> 1]),
    R("craft rail at bench",
      [Requires |-> {"bench"}, Consumes |-> ("ingot" :> 6 @@ "stick" :> 1),
       Produces |-> ("rail" :> 16), Time |-> 1]),
    R("craft cart at bench",
      [Requires |-> {"bench"}, Consumes |-> ("ingot" :> 5),
       Produces |-> ("cart" :> 1), Time |-> 1]),
    R("iron_pickaxe for cobble",
      [Requires |-> {"iron_pickaxe"}, Produces |-> ("cobble" :> 1),
       Time |-> 1]),
    R("stone_axe for wood",
      [Requires |-> {"stone_axe"}, Produces |-> ("wood" :> 1), Time |-> 1]),
    R("craft iron_pickaxe at bench",
      [Requires |-> {"bench"}, Consumes |-> ("ingot" :> 3 @@ "stick" :> 2),
       Produces |-> ("iron_pickaxe" :> 1), Time |-> 1]),
    R("craft furnace at bench",
      [Requires |-> {"bench"}, Consumes |-> ("cobble" :> 8),
       Produces |-> ("furnace" :> 1), Time |-> 1]),
    R("stone_pickaxe for ore",
      [Requires |-> {"stone_pickaxe"}, Produces |-> ("ore" :> 1), Time |-> 4]),
    R("craft iron_axe at bench",
      [Requires |-> {"bench"}, Consumes |-> ("ingot" :> 3 @@ "stick" :> 2),
       Produces |-> ("iron_axe" :> 1), Time |-> 1]),
    R("stone_pickaxe for coal",
      [Requires |-> {"stone_pickaxe"}, Produces |-> ("coal" :> 1), Time |-> 2]),
    R("craft wooden_axe at bench",
      [Requires |-> {"bench"}, Consumes |-> ("plank" :> 3 @@ "stick" :> 2),
       Produces |-> ("wooden_axe" :> 1), Time |-> 1]),
    R("stone_pickaxe for cobble",
      [Requires |-> {"stone_pickaxe"}, Produces |-> ("cobble" :> 1),
       Time |-> 2]),
    R("wooden_pickaxe for cobble",
      [Requires |-> {"wooden_pickaxe"}, Produces |-> ("cobble" :> 1),
       Time |-> 4]),
    R("punch for wood", [Produces |-> ("wood" :> 1), Time |-> 4]),
    R("smelt ore in furnace",
      [Requires |-> {"furnace"}, Consumes |-> ("coal" :> 1 @@ "ore" :> 1),
       Produces |-> ("ingot" :> 1), Time |-> 5]),
    R("craft bench", [Consumes |-> ("plank" :> 4),
                      Produces |-> ("bench" :> 1), Time |-> 1]),
    R("craft stone_axe at bench",
      [Requires |-> {"bench"}, Consumes |-> ("cobble" :> 3 @@ "stick" :> 2),
       Produces |-> ("stone_axe" :> 1), Time |-> 1]),
    R("iron_pickaxe for coal",
      [Requires |-> {"iron_pickaxe"}, Produces |-> ("coal" :> 1), Time |-> 1]),
    R("iron_axe for wood",
      [Requires |-> {"iron_axe"}, Produces |-> ("wood" :> 1), Time |-> 1]) >>

\* two pickaxes held; here the weaker tool is the quicker one
QuickWeakRecipes == <<
    R("stone_pickaxe for cobble",
      [Requires |-> {"stone_pickaxe"}, Produces |-> ("cobble" :> 1),
       Time |-> 2]),
    R("wooden_pickaxe for cobble",
      [Requires |-> {"wooden_pickaxe"}, Produces |-> ("cobble" :> 1),
       Time |-> 1]) >>

\* the same two recipes, the weaker tool's first in all_recipes
WeakFirstRecipes == <<QuickWeakRecipes[2], QuickWeakRecipes[1]>>

\* a state reached first by a dear favoured recipe, then by a cheap detour
\* whose last step is penalised
RerouteRecipes == <<
    R("craft stone_axe at bench",
      [Consumes |-> ("cobble" :> 1 @@ "wood" :> 1),
       Produces |-> ("stone_axe" :> 1 @@ "stick" :> 3), Time |-> 10]),
    R("gather", [Consumes |-> ("wood" :> 1),
                 Produces |-> ("coal" :> 1), Time |-> 1]),
    R("barter", [Consumes |-> ("cobble" :> 1 @@ "coal" :> 1),
                 Produces |-> ("stone_axe" :> 1 @@ "stick" :> 3), Time |-> 1]),
    R("finish", [Requires |-> {"stone_axe"}, Consumes |-> ("stick" :> 3),
                 Produces |-> ("ore" :> 1), Time |-> 1]) >>

Catalogs == <<
    [Items |-> ExampleItems, Initial |-> EmptyDict, Goal |-> ExampleGoal,
     Recipes |-> ExampleRecipes, heur |-> "zero"],
    [Items |-> ExampleItems, Initial |-> EmptyDict, Goal |-> ExampleGoal,
     Recipes |-> ExampleRecipes, heur |-> "repo"],
    [Items |-> DetourItems, Initial |-> ("x" :> 1), Goal |-> ("g" :> 1),
     Recipes |-> DetourRecipes, heur |-> "zero"],
    [Items |-> DearItems, Initial |-> ("x" :> 1), Goal |-> ("g" :> 1),
     Recipes |-> DearRecipes, heur |-> "zero"],
    [Items |-> BarrenItems, Initial |-> ("x" :> 1), Goal |-> ("g" :> 1),
     Recipes |-> BarrenRecipes, heur |-> "zero"],
    [Items |-> CraftItems, Initial |-> EmptyDict, Goal |-> ("bench" :> 1),
     Recipes |-> CraftRecipes, heur |-> "repo"],
    [Items |-> CraftItems, Initial |-> ("bench" :> 1 @@ "plank" :> 5),
     Goal |-> ("wooden_pickaxe" :> 1),
     Recipes |-> CraftRecipes, heur |-> "repo"],
    [Items |-> ShapeItems, Initial |-> ("bench" :> 1), Goal |-> ("plank" :> 3),
     Recipes |-> ShapeRecipes, heur |-> "zero"],
    [Items |-> CraftItems, Initial |-> EmptyDict,
     Goal |-> ("wooden_pickaxe" :> 1),
     Recipes |-> CraftRecipes, heur |-> "repo"],
    [Items |-> CraftItems,
     Initial |-> ("bench" :> 1 @@ "stone_pickaxe" :> 1
                  @@ "wooden_pickaxe" :> 1 @@ "wooden_axe" :> 1),
     Goal |-> ("coal" :> 1 @@ "wood" :> 1),
     Recipes |-> FullRecipes, heur |-> "repo"],
    [Items |-> CraftItems,
     Initial |-> ("stone_pickaxe" :> 1 @@ "wooden_pickaxe" :> 1),
     Goal |-> ("cobble" :> 1),
     Recipes |-> QuickWeakRecipes, heur |-> "repo"],
    [Items |-> CraftItems,
     Initial |-> ("stone_pickaxe" :> 1 @@ "wooden_pickaxe" :> 1),
     Goal |-> ("cobble" :> 1),
     Recipes |-> WeakFirstRecipes, heur |-> "repo"],
    [Items |-> CraftItems, Initial |-> ("cobble" :> 1 @@ "wood" :> 1),
     Goal |-> ("ore" :> 1),
     Recipes |-> RerouteRecipes, heur |-> "repo"] >>

\* the catalog whose actions SpecHeur evaluates heuristic() on
HeurCatalog == 10

\* the catalogs SpecRules draws from
RuleCatalogs == {3, 8}

Cat == Catalogs[sc]
all_recipes == Cat.Recipes
Items == Range(Cat.Items)

\* state = State({key: 0 for key in Crafting['Items']}); state.update(Initial)
StartState == MkState(Cat.Items, Cat.Initial)

-----------------------------------------------------------------------------
(* State *)

\* State.__key: tuple(self.items()), the (item, count) pairs in key order
StateKey(state) ==
    [i \in 1..Len(Cat.Items) |-> <<Cat.Items[i], state[Cat.Items[i]]>>]

\* a slip in State.__lt__: only the first (item, count) pair is compared
StateLtFirstPair(a, b) == StateKey(a)[1][2] < StateKey(b)[1][2]

\* State.__lt__: tuple comparison of the keys; every State of one run has
\* the same items in the same order, so the first differing count decides
StateLt(a, b) ==
    LET ka == StateKey(a)
        kb == StateKey(b)
    IN \E i \in 1..Len(ka) :
          /\ ka[i][2] < kb[i][2]
          /\ \A j \in 1..(i - 1) : ka[j] = kb[j]

\* a slip in State.copy: the object itself is returned
StateCopyAlias(objs, id) == [objs |-> objs, id |-> id]

\* State.copy applied to object 'id' of the object store 'objs': a new
\* State object is allocated and filled from the old one
StateCopy(objs, id) ==
    [objs |-> Append(objs, objs[id]), id |-> Len(objs) + 1]

-----------------------------------------------------------------------------
(* Compiled rules *)

\* a slip in make_checker: the Consumes section is not looked at
check_requires_only(rule, state) ==
    ~ (/\ "Requires" \in DOMAIN rule
       /\ \E req \in rule.Requires : state[req] < 1)

\* a slip in make_checker: '<=' for '<' in line 48
check_off_by_one(rule, state) ==
    LET shortC == /\ "Consumes" \in DOMAIN rule
                  /\ \E material \in DOMAIN rule.Consumes :
                        state[material] <= rule.Consumes[material]
        shortR == /\ "Requires" \in DOMAIN rule
                  /\ \E req \in rule.Requires : state[req] < 1
    IN ~shortC /\ ~shortR

\* make_checker(rule) -> check(state)
check(rule, state) ==
    LET shortC == /\ "Consumes" \in DOMAIN rule
                  /\ \E material \in DOMAIN rule.Consumes :
                        state[material] < rule.Consumes[material]
        shortR == /\ "Requires" \in DOMAIN rule
                  /\ \E req \in rule.Requires : state[req] < 1
    IN ~shortC /\ ~shortR

\* the loop over rule['Consumes'] of effect()
Consume(rule, next_state) ==
    IF "Consumes" \in DOMAIN rule
    THEN [k \in DOMAIN next_state |->
            IF k \in DOMAIN rule.Consumes
            THEN next_state[k] - rule.Consumes[k]
            ELSE next_state[k]]
    ELSE next_state

\* the loop over rule['Produces'] of effect()
Produce(rule, next_state) ==
    [k \in DOMAIN next_state |->
        IF k \in DOMAIN rule.Produces
        THEN next_state[k] + rule.Produces[k]
        ELSE next_state[k]]

\* make_effector(rule) -> effect(state), on the object store: the input is
\* object 'id'; the result names the store afterwards and the new object
effect_obj(rule, objs, id) ==
    LET c == StateCopy(objs, id)
    IN [objs |-> [c.objs EXCEPT ![c.id] = Produce(rule, Consume(rule, @))],
        id |-> c.id]

\* effect(state) as a value: the contents of the object it returns
effect(rule, state) ==
    LET e == effect_obj(rule, <<state>>, 1)
    IN e.objs[e.id]

\* the commented-out variant of lines 90-94: the count must equal the goal
is_goal_equal(goal, state) ==
    LET num_goals == Cardinality(DOMAIN goal)
        reached == Cardinality({g \in DOMAIN goal : state[g] = goal[g]})
    IN reached = num_goals

\* make_goal_checker(goal) -> is_goal(state)
is_goal(goal, state) ==
    LET num_goals == Cardinality(DOMAIN goal)
        reached == Cardinality({g \in DOMAIN goal : state[g] >= goal[g]})
    IN reached = num_goals

\* graph(state): the (name, effect(state), cost) triples, in recipe order
graph(state) ==
    LET valid == SelectSeq(all_recipes, LAMBDA r : check(r.rule, state))
    IN [i \in 1..Len(valid) |->
          <<valid[i].name, effect(valid[i].rule, state), valid[i].rule.Time>>]

-----------------------------------------------------------------------------
(* heuristic(current_state, effect_state, action) *)

Pass == [kind |-> "pass", v |-> 0]

\* the strongest_tool chain of lines 115-121: "" when no pickaxe is held,
\* "KeyError" when the state has no such item
strongest_tool(current_state) ==
    IF "iron_pickaxe" \notin DOMAIN current_state THEN "KeyError"
    ELSE IF current_state["iron_pickaxe"] > 0 THEN "iron_pickaxe"
    ELSE IF "stone_pickaxe" \notin DOMAIN current_state THEN "KeyError"
    ELSE IF current_state["stone_pickaxe"] > 0 THEN "stone_pickaxe"
    ELSE IF "wooden_pickaxe" \notin DOMAIN current_state THEN "KeyError"
    ELSE IF current_state["wooden_pickaxe"] > 0 THEN "wooden_pickaxe"
    ELSE ""

\* if "axe for <resource>" in action: ... if strongest_tool not in action
ToolGate(pattern, current_state, action) ==
    IF ~StrIn(pattern, action) THEN Pass
    ELSE LET tool == strongest_tool(current_state)
         IN IF tool = "KeyError" THEN KeyErr
            ELSE IF ~StrIn(tool, action) THEN Inf
            ELSE Pass

\* if "stone_axe at bench" in action
StoneAxeRule(current_state, action) ==
    IF ~StrIn("stone_axe at bench", action) THEN Pass
    ELSE IF "stone_axe" \notin DOMAIN current_state THEN KeyErr
    ELSE IF current_state["stone_axe"] < 1 THEN Num(-100)
    ELSE Pass

\* if "craft cart" in action
CartRule(effect_state, action) ==
    IF ~StrIn("craft cart", action) THEN Pass
    ELSE IF "cart" \notin DOMAIN effect_state THEN KeyErr
    ELSE IF effect_state["cart"] > 1 THEN Inf
    ELSE Num(-1000)

\* if "craft rail" in action
RailRule(current_state, action) ==
    IF ~StrIn("craft rail", action) THEN Pass
    ELSE IF "cart" \notin DOMAIN current_state THEN KeyErr
    ELSE IF current_state["cart"] > 0 THEN Num(-1000)
    ELSE Num(-1000)

\* the if/elif chain on effect_state[item] > cap of lines 157-202
CapChain == <<
    <<"bench", 1, Inf>>, <<"wooden_axe", 1, Inf>>, <<"furnace", 1, Inf>>,
    <<"wooden_pickaxe", 1, Inf>>, <<"stone_pickaxe", 1, Inf>>,
    <<"stone_axe", 1, Inf>>, <<"iron_pickaxe", 1, Inf>>,
    <<"iron_axe", 1, Inf>>,
    <<"plank", 8, Num(1000)>>, <<"wood", 3, Num(1000)>>,
    <<"stick", 5, Num(1000)>>, <<"cobble", 8, Num(1000)>>,
    <<"coal", 17, Num(1000)>>, <<"ore", 17, Num(1000)>>,
    <<"ingot", 17, Num(1000)>>,
    <<"plank", 4, Num(500)>>, <<"wood", 2, Num(500)>>,
    <<"stick", 2, Num(500)>>, <<"cobble", 5, Num(500)>>,
    <<"coal", 5, Num(500)>>, <<"ore", 5, Num(500)>>,
    <<"ingot", 7, Num(500)>>
>>

\* the two tool-upgrade branches that end the chain, lines 204-207
UpgradeChain == << <<"iron_pickaxe", Num(-100)>>, <<"stone_pickaxe", Num(-10)>> >>

RECURSIVE UpgradeFrom(_, _, _)
UpgradeFrom(i, current_state, effect_state) ==
    IF i > Len(UpgradeChain) THEN Pass
    ELSE LET item == UpgradeChain[i][1]
         IN IF item \notin DOMAIN current_state THEN KeyErr
            ELSE IF current_state[item] = 0 /\ effect_state[item] = 1
                 THEN UpgradeChain[i][2]
            ELSE UpgradeFrom(i + 1, current_state, effect_state)

RECURSIVE CapFrom(_, _, _)
CapFrom(i, current_state, effect_state) ==
    IF i > Len(CapChain) THEN UpgradeFrom(1, current_state, effect_state)
    ELSE LET item == CapChain[i][1]
         IN IF item \notin DOMAIN effect_state THEN KeyErr
            ELSE IF effect_state[item] > CapChain[i][2] THEN CapChain[i][3]
            ELSE CapFrom(i + 1, current_state, effect_state)

RECURSIVE FirstResult(_, _)
FirstResult(stages, i) ==
    IF i > Len(stages) THEN Num(0)
    ELSE IF stages[i] # Pass THEN stages[i]
    ELSE FirstResult(stages, i + 1)

\* heuristic(): the rules in the order of the source, the first that
\* returns (or raises) decides; the default is 0
heuristic(current_state, effect_state, action) ==
    FirstResult(<< ToolGate("axe for coal", current_state, action),
                   ToolGate("axe for cobble", current_state, action),
                   ToolGate("axe for ore", current_state, action),
                   StoneAxeRule(current_state, action),
                   CartRule(effect_state, action),
                   RailRule(current_state, action),
                   CapFrom(1, current_state, effect_state) >>, 1)

\* the constant-zero bias
zero_heuristic(current_state, effect_state, action) == Num(0)

\* the heuristic argument of this call of search()
Bias(current_state, effect_state, action) ==
    IF Cat.heur = "repo"
    THEN heuristic(current_state, effect_state, action)
    ELSE zero_heuristic(current_state, effect_state, action)

-----------------------------------------------------------------------------
(* search(graph, state, is_goal, limit, heuristic) *)

\* heap entries are (priority, state) tuples; g is history: the cost that
\* was recorded for the state when the entry was pushed
Entry(priority, state, g) == [prio |-> priority, st |-> state, g |-> g]

\* tuple comparison of two heap entries: priority first, then State.__lt__
EntryLt(e1, e2) ==
    \/ e1.prio < e2.prio
    \/ e1.prio = e2.prio /\ StateLt(e1.st, e2.st)

\* the entries heappop may return: those no other entry is smaller than
HeapMin(heap) == {e \in heap : \A o \in heap : ~EntryLt(o, e)}

\* priority = new_cost + heuristic(...)
Priority(new_cost, bias) ==
    IF bias.kind = "inf" THEN Inf ELSE Num(new_cost + bias.v)

\* if priority < 10000
ShouldPush(priority) == priority.kind = "num" /\ priority.v < 10000

\* dict[key] = value
DictSet(d, key, value) ==
    [k \in DOMAIN d \cup {key} |-> IF k = key THEN value ELSE d[k]]

\* a slip in line 254: the name of the first recipe is stored
CameFromEntryFirstName(pred, possible_action, edge_cost) ==
    <<pred, all_recipes[1].name, edge_cost>>

\* the tuple stored in came_from for a relaxed successor
CameFromEntry(pred, possible_action, edge_cost) ==
    <<pred, possible_action, edge_cost>>

Max(a, b) == IF a > b THEN a ELSE b

NoEntry == Entry(0, EmptyDict, 0)
NoStep == [op |-> "none", from |-> EmptyDict, action |-> "", to |-> EmptyDict,
           new_cost |-> 0, priority |-> Num(0), pushed |-> FALSE]
NoApp == [rule |-> 0, src |-> 0, new |-> 0]

\* lines 219-229
Init ==
    /\ sc \in 1..Len(Catalogs)
    /\ pc = "loop"
    /\ h = {Entry(0, StartState, 0)}
    /\ came_from = (StartState :> <<None, "start">>)
    /\ cost_so_far = (StartState :> 0)
    /\ current = EmptyDict
    /\ ri = 0
    /\ end_state = EmptyDict
    /\ failed = TRUE
    /\ path = <<>>
    /\ cost = 0
    /\ ptr = <<>>
    /\ iterations = 0
    /\ max_heap = 0
    /\ result = "running"
    /\ popped = NoEntry
    /\ last = NoStep
    /\ enqueued = {StartState}
    /\ store = <<>>
    /\ lastApp = NoApp

\* the loop condition 'time() - start_time < limit' is false: the loop is
\* left with failed still set, and lines 257-260 return None
Timeout ==
    /\ pc = "loop"
    /\ pc' = "done"
    /\ result' = "None"
    /\ last' = [NoStep EXCEPT !.op = "timeout"]
    /\ UNCHANGED <<sc, enqueued, h, came_from, cost_so_far, current, ri, end_state,
                   failed, path, cost, ptr, iterations, max_heap, popped,
                   store, lastApp>>

\* line 235 on an empty heap: heappop raises IndexError out of search()
PopEmpty ==
    /\ pc = "loop"
    /\ iterations < MaxIter
    /\ h = {}
    /\ iterations' = iterations + 1
    /\ pc' = "done"
    /\ result' = "IndexError"
    /\ last' = [NoStep EXCEPT !.op = "pop_empty"]
    /\ UNCHANGED <<sc, enqueued, h, came_from, cost_so_far, current, ri, end_state,
                   failed, path, cost, ptr, max_heap, popped, store, lastApp>>

\* lines 233-241: the popped state is a goal state; the loop is left and
\* line 262 starts the reconstruction
PopGoal ==
    /\ pc = "loop"
    /\ iterations < MaxIter
    /\ \E e \in HeapMin(h) :
          /\ is_goal(Cat.Goal, e.st)
          /\ h' = h \ {e}
          /\ current' = e.st
          /\ popped' = e
          /\ end_state' = e.st
          /\ ptr' = came_from[e.st]
    /\ iterations' = iterations + 1
    /\ failed' = FALSE
    /\ cost' = 0
    /\ pc' = "trace"
    /\ last' = [NoStep EXCEPT !.op = "pop_goal"]
    /\ UNCHANGED <<sc, enqueued, came_from, cost_so_far, ri, path, max_heap, result,
                   store, lastApp>>

\* lines 233-242: the popped state is no goal state; the for loop over
\* graph(current) starts (and ends at once when graph yields nothing)
PopExpand ==
    /\ pc = "loop"
    /\ iterations < MaxIter
    /\ \E e \in HeapMin(h) :
          /\ ~is_goal(Cat.Goal, e.st)
          /\ h' = h \ {e}
          /\ current' = e.st
          /\ popped' = e
          /\ pc' = IF Len(graph(e.st)) = 0 THEN "loop" ELSE "for"
    /\ iterations' = iterations + 1
    /\ ri' = 1
    /\ last' = [NoStep EXCEPT !.op = "pop"]
    /\ UNCHANGED <<sc, enqueued, came_from, cost_so_far, end_state, failed, path, cost,
                   ptr, max_heap, result, store, lastApp>>

\* the successor the for loop is at, and its candidate cost (line 244)
Succ == graph(current)[ri]

\* a slip in line 244: the cost of the recipe is not added
NewCostNoEdge == cost_so_far[current]

NewCost == cost_so_far[current] + Succ[3]

\* a slip in line 245: '>' for '<'
ImprovesReversed ==
    IF Succ[2] \notin DOMAIN cost_so_far THEN TRUE
    ELSE NewCost > cost_so_far[Succ[2]]

Improves ==
    IF Succ[2] \notin DOMAIN cost_so_far THEN TRUE
    ELSE NewCost < cost_so_far[Succ[2]]
NextPc == IF ri = Len(graph(current)) THEN "loop" ELSE "for"

\* lines 245-254: the successor is new or cheaper
Relax ==
    /\ pc = "for"
    /\ Improves
    /\ LET possible_action == Succ[1]
           effect_state == Succ[2]
           bias == Bias(current, effect_state, possible_action)
           priority == Priority(NewCost, bias)
           pushed == ShouldPush(priority)
       IN /\ bias.kind # "KeyError"
          /\ cost_so_far' = DictSet(cost_so_far, effect_state, NewCost)
          /\ h' = IF pushed
                  THEN h \cup {Entry(priority.v, effect_state, NewCost)}
                  ELSE h
          /\ enqueued' = IF pushed THEN enqueued \cup {effect_state}
                         ELSE enqueued
          /\ max_heap' = Max(Cardinality(h'), max_heap)
          /\ came_from' = DictSet(came_from, effect_state,
                             CameFromEntry(current, possible_action, Succ[3]))
          /\ last' = [op |-> "relax", from |-> current,
                      action |-> possible_action, to |-> effect_state,
                      new_cost |-> NewCost, priority |-> priority,
                      pushed |-> pushed]
    /\ ri' = ri + 1
    /\ pc' = NextPc
    /\ UNCHANGED <<sc, current, end_state, failed, path, cost, ptr,
                   iterations, result, popped, store, lastApp>>

\* lines 245-249 when heuristic() raises KeyError: the cost is already
\* recorded (line 248), nothing is pushed, search() ends with the exception
RelaxRaise ==
    /\ pc = "for"
    /\ Improves
    /\ Bias(current, Succ[2], Succ[1]).kind = "KeyError"
    /\ cost_so_far' = DictSet(cost_so_far, Succ[2], NewCost)
    /\ pc' = "done"
    /\ result' = "KeyError"
    /\ last' = [NoStep EXCEPT !.op = "raise", !.from = current,
                              !.action = Succ[1], !.to = Succ[2],
                              !.new_cost = NewCost]
    /\ UNCHANGED <<sc, enqueued, h, came_from, current, ri, end_state, failed, path,
                   cost, ptr, iterations, max_heap, popped, store, lastApp>>

\* line 245 is false: the successor is known at no higher cost
Skip ==
    /\ pc = "for"
    /\ ~Improves
    /\ ri' = ri + 1
    /\ pc' = NextPc
    /\ last' = [NoStep EXCEPT !.op = "skip", !.from = current,
                              !.action = Succ[1], !.to = Succ[2],
                              !.new_cost = NewCost]
    /\ UNCHANGED <<sc, enqueued, h, came_from, cost_so_far, current, end_state, failed,
                   path, cost, ptr, iterations, max_heap, result, popped,
                   store, lastApp>>

\* lines 264-267: one pass of the reconstruction loop
TraceStep ==
    /\ pc = "trace"
    /\ ptr[2] # "start"
    /\ path' = <<(<<ptr[1], ptr[2]>>)>> \o path
    /\ cost' = cost + ptr[3]
    /\ ptr' = came_from[ptr[1]]
    /\ last' = [NoStep EXCEPT !.op = "trace"]
    /\ UNCHANGED <<sc, enqueued, pc, h, came_from, cost_so_far, current, ri, end_state,
                   failed, iterations, max_heap, result, popped, store,
                   lastApp>>

\* lines 264 and 273: the start sentinel is reached, the path is returned
Return ==
    /\ pc = "trace"
    /\ ptr[2] = "start"
    /\ pc' = "done"
    /\ result' = "plan"
    /\ last' = [NoStep EXCEPT !.op = "return"]
    /\ UNCHANGED <<sc, enqueued, h, came_from, cost_so_far, current, ri, end_state,
                   failed, path, cost, ptr, iterations, max_heap, popped,
                   store, lastApp>>

Next ==
    \/ Timeout
    \/ PopEmpty
    \/ PopGoal
    \/ PopExpand
    \/ Relax
    \/ RelaxRaise
    \/ Skip
    \/ TraceStep
    \/ Return

Spec == Init /\ [][Next]_vars

-----------------------------------------------------------------------------
(* check() and effect() on State objects *)

InitRules ==
    /\ sc \in RuleCatalogs
    /\ \E s0 \in [Items -> 0..MaxStart] : store = <<s0>>
    /\ lastApp = NoApp
    /\ pc = "idle"
    /\ h = {}
    /\ came_from = EmptyDict
    /\ cost_so_far = EmptyDict
    /\ current = EmptyDict
    /\ ri = 0
    /\ end_state = EmptyDict
    /\ failed = TRUE
    /\ path = <<>>
    /\ cost = 0
    /\ ptr = <<>>
    /\ iterations = 0
    /\ max_heap = 0
    /\ result = "idle"
    /\ popped = NoEntry
    /\ last = NoStep
    /\ enqueued = {}

\* graph(state) on a stored State: recipe i passes its check and its
\* effect allocates the successor
Apply(i, id) ==
    /\ Len(store) < MaxObjs
    /\ check(all_recipes[i].rule, store[id])
    /\ LET e == effect_obj(all_recipes[i].rule, store, id)
       IN /\ store' = e.objs
          /\ lastApp' = [rule |-> i, src |-> id, new |-> e.id]
    /\ UNCHANGED <<sc, searchVars>>

NextRules ==
    \E i \in 1..Len(all_recipes) : \E id \in 1..Len(store) : Apply(i, id)

SpecRules == InitRules /\ [][NextRules]_vars

-----------------------------------------------------------------------------
(* heuristic() on its own: SpecHeur draws an inventory of durable goods,   *)
(* then evaluates heuristic() for one action of the full catalog           *)

\* the items only one of is ever useful: stations and tools
Durables == {"bench", "furnace", "wooden_axe", "stone_axe", "iron_axe",
             "wooden_pickaxe", "stone_pickaxe", "iron_pickaxe"}

\* what is added to the drawn inventory: nothing, the action's own products
\* once more, or a second copy of one durable item
Variants == {"plain", "again"} \cup Durables

InitHeur ==
    /\ sc = HeurCatalog
    /\ \E held \in [Durables \cup {"cart"} -> {0, 1}] :
          store = <<MkState(Cat.Items, held)>>
    /\ lastApp = NoApp
    /\ pc = "heur"
    /\ h = {}
    /\ came_from = EmptyDict
    /\ cost_so_far = EmptyDict
    /\ current = EmptyDict
    /\ ri = 0
    /\ end_state = EmptyDict
    /\ failed = TRUE
    /\ path = <<>>
    /\ cost = 0
    /\ ptr = <<>>
    /\ iterations = 0
    /\ max_heap = 0
    /\ result = "idle"
    /\ popped = NoEntry
    /\ last = NoStep
    /\ enqueued = {}

\* the state recipe i is applied to: the drawn inventory with the recipe's
\* ingredients, and with what the variant adds
HeurCurrent(i, v) ==
    LET rule == all_recipes[i].rule
        held == store[1]
        stocked == [k \in DOMAIN held |->
                      held[k] + (IF "Consumes" \in DOMAIN rule
                                    /\ k \in DOMAIN rule.Consumes
                                 THEN rule.Consumes[k] ELSE 0)]
    IN IF v = "again" THEN Produce(rule, stocked)
       ELSE IF v \in Durables THEN [stocked EXCEPT ![v] = @ + 1]
       ELSE stocked

\* line 249: heuristic(current, effect_state, possible_action) for the
\* successor graph() yields for recipe i
Evaluate(i, v) ==
    /\ pc = "heur"
    /\ LET current_state == HeurCurrent(i, v)
           effect_state == effect(all_recipes[i].rule, current_state)
           action == all_recipes[i].name
       IN last' = [op |-> "heuristic", from |-> current_state,
                   action |-> action, to |-> effect_state, new_cost |-> 0,
                   priority |-> heuristic(current_state, effect_state, action),
                   pushed |-> FALSE]
    /\ lastApp' = [rule |-> i, src |-> 1, new |-> 1]
    /\ pc' = "heur_done"
    /\ UNCHANGED <<sc, enqueued, h, came_from, cost_so_far, current, ri, end_state,
                   failed, path, cost, ptr, iterations, max_heap, result,
                   popped, store>>

NextHeur ==
    \E i \in 1..Len(all_recipes) : \E v \in Variants : Evaluate(i, v)

SpecHeur == InitHeur /\ [][NextHeur]_vars

-----------------------------------------------------------------------------
(* Reference definitions the claims are stated with *)

\* action metadata: tool tiers, and the tool a gathering recipe works with
Tiers == <<"wooden", "stone", "iron">>
Tool(t, family) == Tiers[t] \o "_" \o family
Families == {"pickaxe", "axe"}
RawResources == {"coal", "cobble", "ore", "wood"}
Gathers(rule) == DOMAIN rule.Produces \subseteq RawResources
UsesTool(rule, t, family) ==
    "Requires" \in DOMAIN rule /\ Tool(t, family) \in rule.Requires
HoldsHigher(state, t, family) ==
    \E t2 \in (t + 1)..Len(Tiers) : state[Tool(t2, family)] > 0

\* the final artifacts and how many of each are needed: one cart, one
\* batch of rails
Artifacts == {"cart", "rail"}
Needed(rule, artifact) == rule.Produces[artifact]

\* none of the rules before the tool-upgrade rule applies
NoEarlierRule(current_state, effect_state, action) ==
    /\ \A pat \in {"axe for coal", "axe for cobble", "axe for ore",
                    "stone_axe at bench", "craft cart", "craft rail"} :
          ~StrIn(pat, action)
    /\ \A d \in Durables : effect_state[d] <= 1
    /\ \A i \in 1..Len(CapChain) : effect_state[CapChain[i][1]] <= CapChain[i][2]

\* largest amount a goal drawn for the goal predicate asks of an item
MaxGoal == 2

\* every goal mapping over the catalog's items with amounts 1..MaxGoal
Goals == UNION {[D -> 1..MaxGoal] : D \in SUBSET Items}

\* item-wise domination of inventories
Dominates(t, s) == \A k \in DOMAIN s : t[k] >= s[k]

\* steps of the exhaustive reference search
OptDepth == 4

RequiresOf(rule) == IF "Requires" \in DOMAIN rule THEN rule.Requires ELSE {}
ConsumesOf(rule) == IF "Consumes" \in DOMAIN rule THEN rule.Consumes ELSE EmptyDict
Amount(d, k) == IF k \in DOMAIN d THEN d[k] ELSE 0

\* the applicability condition as the specification words it
Applicable(rule, state) ==
    /\ \A k \in RequiresOf(rule) : state[k] >= 1
    /\ \A k \in DOMAIN ConsumesOf(rule) : state[k] >= ConsumesOf(rule)[k]

\* the counts after one application, as the specification words them
Delta(rule, state) ==
    [k \in DOMAIN state |->
        state[k] - Amount(ConsumesOf(rule), k) + Amount(rule.Produces, k)]

RecipeNamed(name) == CHOOSE r \in Range(all_recipes) : r.name = name

\* <<state, cost>> of every chain of at most k applicable recipes from the
\* start state
RECURSIVE Chains(_)
Chains(k) ==
    IF k = 0 THEN {<<StartState, 0>>}
    ELSE LET prev == Chains(k - 1)
         IN prev \cup
            {<<Delta(x[2].rule, x[1][1]), x[1][2] + x[2].rule.Time>> :
                x \in {y \in prev \X Range(all_recipes) :
                          Applicable(y[2].rule, y[1][1])}}

GoalChains == {q \in Chains(OptDepth) : is_goal(Cat.Goal, q[1])}
GoalReachable == GoalChains # {}
MinGoalCost ==
    CHOOSE c \in {q[2] : q \in GoalChains} : \A q \in GoalChains : c <= q[2]

\* every chain from the start stays within OptDepth steps of it, and none
\* of the states is a goal state
GoalUnreachable ==
    /\ GoalChains = {}
    /\ {q[1] : q \in Chains(OptDepth + 1)} = {q[1] : q \in Chains(OptDepth)}

PlanActions == [i \in 1..Len(path) |-> path[i][2]]

\* the plan's actions applied in order from state s lead, each passing its
\* check, to the goal state that was popped
RECURSIVE Replays(_, _)
Replays(s, i) ==
    IF i > Len(path) THEN s = end_state
    ELSE LET r == RecipeNamed(path[i][2])
         IN /\ check(r.rule, s)
            /\ Replays(effect(r.rule, s), i + 1)

-----------------------------------------------------------------------------
(* Claims *)

\* C1: whenever search() succeeds, the returned plan is executable: from the
\* start state each action of the plan, in order, passes its check on the
\* state it is applied to, and the state after the last action is the goal
\* state that was popped, which satisfies the goal predicate.
C1_PlanExecutable ==
    result = "plan" =>
        /\ Replays(StartState, 1)
        /\ end_state = popped.st
        /\ is_goal(Cat.Goal, end_state)

C1_Witness ==
    /\ result = "plan"
    /\ Len(path) >= 3
    /\ Cat.heur = "repo"

\* C2: with the constant-zero bias and a budget that does not expire, for a
\* catalog in which a goal state is reachable, search() returns a plan and
\* its total cost is the minimum cumulative recipe cost of any chain from
\* the start state to a goal state.
C2_ZeroBiasIsDijkstra ==
    (/\ pc = "done"
     /\ result # "None"
     /\ Cat.heur = "zero"
     /\ GoalReachable)
    => (result = "plan" /\ cost = MinGoalCost)

\* C3: from a start state with non-negative counts, every state reached by
\* applying recipes whose check() passed has every count >= 0; the effect
\* never drives a consumed item below zero.
C3_NonNegative ==
    \A id \in 1..Len(store) : \A k \in DOMAIN store[id] : store[id][k] >= 0

C3_Witness ==
    /\ lastApp.rule # 0
    /\ \E k \in DOMAIN ConsumesOf(all_recipes[lastApp.rule].rule) :
          /\ store[lastApp.src][k] > 0
          /\ store[lastApp.new][k] = 0

\* C4: when no goal state is reachable, search() always ends with the
\* explicit failure result None, and in no other way, also when the heap
\* runs empty before the budget expires.
C4_UnreachableGivesNone ==
    (pc = "done" /\ GoalUnreachable) => result = "None"

\* C5: a successor whose cost was recorded in the relaxation step is pushed
\* if and only if its priority is finite; only an infinite one is dropped.
C5_PushedIffFinite ==
    last.op = "relax" => (last.pushed <=> last.priority.kind # "inf")

\* C6: a popped entry that is stale (the recorded cost of its state has
\* improved since the entry was pushed) is skipped: its state's successors
\* are not expanded.
C6_StaleNotExpanded ==
    (last.op = "pop" \/ pc = "for") => ~(cost_so_far[popped.st] < popped.g)

\* C7: on the end-to-end example (items wood and plank, recipes chop and
\* craft plank, goal plank:1) the search, unless the budget runs out, ends
\* successfully with the plan chop, craft plank at total cost 2.
C7_EndToEndExample ==
    (/\ Cat.Items = ExampleItems
     /\ pc = "done"
     /\ result # "None")
    => (/\ result = "plan"
        /\ PlanActions = <<"chop", "craft plank">>
        /\ cost = 2)

\* C8: each entry of the returned plan pairs an action with the state that
\* results from it: the state of entry i is the effect of action i on the
\* state of entry i-1 (the start state for the first entry), and the state
\* of the last entry is the goal state.
C8_EntriesHoldResultingState ==
    result = "plan" =>
        /\ \A i \in 1..Len(path) :
              path[i][1] =
                 effect(RecipeNamed(path[i][2]).rule,
                        IF i = 1 THEN StartState ELSE path[i - 1][1])
        /\ Len(path) > 0 => path[Len(path)][1] = end_state

\* C9: check(state) is true exactly when every Requires item has count >= 1
\* and every Consumes item has count >= the consumed amount (a missing
\* section imposes nothing), and graph(state) yields exactly one triple
\* (name, next state, cost) for each recipe whose check passes, none for
\* the others.
C9_CheckAndGraph ==
    \A id \in 1..Len(store) :
        LET s == store[id]
            g == graph(s)
        IN /\ \A i \in 1..Len(all_recipes) :
                 LET r == all_recipes[i]
                     hits == {j \in 1..Len(g) : g[j][1] = r.name}
                 IN /\ check(r.rule, s) <=> Applicable(r.rule, s)
                    /\ Cardinality(hits) = IF Applicable(r.rule, s) THEN 1 ELSE 0
                    /\ \A j \in hits : g[j] = <<r.name, Delta(r.rule, s), r.rule.Time>>
           /\ \A j \in 1..Len(g) : \E r \in Range(all_recipes) : g[j][1] = r.name

C9_Witness ==
    /\ lastApp.rule # 0
    /\ "Requires" \in DOMAIN all_recipes[lastApp.rule].rule
    /\ "Consumes" \in DOMAIN all_recipes[lastApp.rule].rule
    /\ \E i \in 1..Len(all_recipes) :
          /\ ~check(all_recipes[i].rule, store[lastApp.new])
          /\ "Consumes" \in DOMAIN all_recipes[i].rule
    /\ \E i \in 1..Len(all_recipes) :
          /\ check(all_recipes[i].rule, store[lastApp.new])
          /\ "Requires" \in DOMAIN all_recipes[i].rule
          /\ "Consumes" \notin DOMAIN all_recipes[i].rule

\* C10: effect(state) returns a new state whose count of each item is the
\* input count minus the Consumes amount plus the Produces amount (both for
\* an item that is consumed and produced), items the rule does not mention
\* keep their count, and the input state and every state stored before are
\* left as they were.
C10_EffectDeltaAndFrame ==
    [][ LET rule == all_recipes[lastApp'.rule].rule
            src == lastApp'.src
            new == lastApp'.new
        IN /\ Len(store') = Len(store) + 1
           /\ new = Len(store')
           /\ \A id \in 1..Len(store) : store'[id] = store[id]
           /\ \A k \in DOMAIN store[src] :
                 store'[new][k] =
                    store[src][k] - Amount(ConsumesOf(rule), k)
                                  + Amount(rule.Produces, k)
           /\ \A k \in DOMAIN store[src] :
                 (k \notin DOMAIN ConsumesOf(rule) /\ k \notin DOMAIN rule.Produces)
                    => store'[new][k] = store[src][k]
      ]_vars

C10_Witness ==
    /\ lastApp.rule # 0
    /\ LET rule == all_recipes[lastApp.rule].rule
       IN /\ DOMAIN ConsumesOf(rule) \cap DOMAIN rule.Produces # {}
          /\ \E k \in DOMAIN store[lastApp.src] :
                /\ k \notin DOMAIN ConsumesOf(rule)
                /\ k \notin DOMAIN rule.Produces
                /\ store[lastApp.src][k] > 0

\* C11: is_goal(state) is true exactly when every item of the goal mapping
\* has a count >= the required amount (a threshold, not equality); hence a
\* state that dominates a satisfying state item-wise satisfies the goal too.
C11_GoalThreshold ==
    \A goal \in Goals :
        \A id \in 1..Len(store) :
            /\ is_goal(goal, store[id])
                  <=> \A k \in DOMAIN goal : store[id][k] >= goal[k]
            /\ \A id2 \in 1..Len(store) :
                  (is_goal(goal, store[id]) /\ Dominates(store[id2], store[id]))
                     => is_goal(goal, store[id2])

C11_Witness ==
    \E id \in 1..Len(store) : \E id2 \in 1..Len(store) :
        /\ is_goal(Cat.Goal, store[id])
        /\ Dominates(store[id2], store[id])
        /\ \E k \in DOMAIN Cat.Goal : store[id2][k] > store[id][k]
        /\ \E k \in DOMAIN Cat.Goal : store[id2][k] > Cat.Goal[k]

\* C12: tool tiering: for every gathering action that works with a tool
\* (pickaxe actions for coal, cobble and ore, axe actions for wood) and
\* every current state that holds a higher tier of that tool family than
\* the one the action uses, heuristic() returns +infinity.
C12_ToolTiering ==
    last.op = "heuristic" =>
        LET rule == all_recipes[lastApp.rule].rule
        IN \A family \in Families : \A t \in 1..Len(Tiers) :
              (/\ Gathers(rule)
               /\ UsesTool(rule, t, family)
               /\ HoldsHigher(last.from, t, family))
              => last.priority = Inf

\* C13: singleton durable goods: for every action and every candidate state
\* in which a station or tool count exceeds 1, heuristic() returns
\* +infinity; no later rule returns a finite bias for such a candidate.
C13_SingletonDurables ==
    last.op = "heuristic" =>
        ((\E d \in Durables : last.to[d] > 1) => last.priority = Inf)

\* C14: terminal goal: an action that produces a final artifact (craft cart,
\* craft rail) gets a large negative bias when the artifact is produced for
\* the first time and +infinity when the candidate's count of the artifact
\* exceeds the needed count.
C14_TerminalGoal ==
    last.op = "heuristic" =>
        LET rule == all_recipes[lastApp.rule].rule
        IN \A a \in Artifacts \cap DOMAIN rule.Produces :
              /\ (last.from[a] = 0 /\ last.to[a] <= Needed(rule, a))
                    => (last.priority.kind = "num" /\ last.priority.v <= -1000)
              /\ last.to[a] > Needed(rule, a) => last.priority = Inf

\* C15: tool-upgrade encouragement: a transition that grants a pickaxe tier
\* the current state lacks, and triggers no earlier rule, gets a negative
\* bias, more strongly negative for an earlier tier than for a later one:
\* bias(wooden) < bias(stone) < bias(iron) < 0.
C15_UpgradeBias ==
    last.op = "heuristic" =>
        \A t \in 1..Len(Tiers) :
            LET tool == Tool(t, "pickaxe")
            IN (/\ last.from[tool] = 0
                /\ last.to[tool] = 1
                /\ NoEarlierRule(last.from, last.to, last.action))
               => /\ last.priority.kind = "num"
                  /\ last.priority.v < 0
                  /\ \A t2 \in (t + 1)..Len(Tiers) :
                        LET later == Tool(t2, "pickaxe")
                            granted == [last.from EXCEPT ![later] = 1]
                            bias == heuristic(last.from, granted,
                                              "craft " \o later \o " at bench")
                        IN last.from[later] = 0
                              => (bias.kind = "num" /\ last.priority.v < bias.v)

\* C16: determinism: the entry a pop returns is fixed by the heap alone:
\* all candidates of one pop hold the same priority and the same state, the
\* one that comes first in the canonical (item, count) tuple order among
\* the entries of least priority; so two runs that are not cut short pop
\* the same sequence of states and return the same plan.
C16_DeterministicPop ==
    pc = "loop" =>
        \A e1 \in HeapMin(h) :
            /\ \A e2 \in HeapMin(h) : e1.prio = e2.prio /\ e1.st = e2.st
            /\ \A o \in h :
                  /\ o.prio >= e1.prio
                  /\ (o.prio = e1.prio /\ o.st # e1.st) =>
                        \E i \in 1..Len(Cat.Items) :
                            /\ e1.st[Cat.Items[i]] < o.st[Cat.Items[i]]
                            /\ \A j \in 1..(i - 1) :
                                  e1.st[Cat.Items[j]] = o.st[Cat.Items[j]]

C16_Witness ==
    /\ pc = "loop"
    /\ iterations < MaxIter
    /\ \E e1 \in HeapMin(h) : \E o \in h :
          /\ o.prio = e1.prio
          /\ o.st # e1.st
          /\ o.st[Cat.Items[1]] = e1.st[Cat.Items[1]]

\* the bias of step i of the returned plan
StepBias(i) ==
    Bias(path[i][1], effect(RecipeNamed(path[i][2]).rule, path[i][1]),
         path[i][2])

\* C17: a transition whose bias is +infinity is excluded for good: no step
\* (predecessor state, action) of a returned plan has an infinite bias,
\* also when that transition reaches, at lower cost, a state that was
\* already pushed through another transition.
C17_NoPrunedStepInPlan ==
    result = "plan" => \A i \in 1..Len(path) : StepBias(i).kind # "inf"

\* C18: pruning one transition into a state (its cost is recorded, it is
\* not enqueued) never prevents the state from being enqueued through a
\* different transition of finite bias; so a goal reachable through
\* transitions of finite bias is found when the budget does not expire.
C18_PrunedStateStillEnqueued ==
    (/\ last.op = "skip"
     /\ Bias(last.from, last.to, last.action).kind = "num")
    => last.to \in enqueued

\* C19 as claimed: on success the total cost summed by the reconstruction
\* equals cost_so_far of the goal state at the moment it was popped.
C19_CostEqualsRecorded ==
    result = "plan" => cost = cost_so_far[end_state]

\* C19 as amended: on success the total cost summed by the reconstruction
\* is at most cost_so_far of the goal state at the moment it was popped
\* (lower when a state on the chain was re-relaxed after its successor was
\* recorded), and equal to it under the constant-zero bias.
C19_CostAtMostRecorded ==
    result = "plan" =>
        /\ cost <= cost_so_far[end_state]
        /\ Cat.heur = "zero" => cost = cost_so_far[end_state]

C19_Witness ==
    /\ result = "plan"
    /\ cost < cost_so_far[end_state]
    /\ Len(path) >= 2

\* following came_from from s reaches the start sentinel in at most n steps
RECURSIVE ReachesStart(_, _)
ReachesStart(s, n) ==
    IF s = StartState THEN TRUE
    ELSE IF n = 0 \/ s \notin DOMAIN came_from THEN FALSE
    ELSE ReachesStart(came_from[s][1], n - 1)

\* the came_from entries are consistent with the recipes and the costs
CameFromConsistent ==
    \A s \in DOMAIN came_from :
        LET e == came_from[s]
        IN IF s = StartState
           THEN Len(e) = 2 /\ e[2] = "start"
           ELSE /\ Len(e) = 3
                /\ e[1] \in DOMAIN cost_so_far
                /\ \E r \in Range(all_recipes) :
                      /\ r.name = e[2]
                      /\ Applicable(r.rule, e[1])
                      /\ Delta(r.rule, e[1]) = s
                      /\ r.rule.Time = e[3]
                /\ cost_so_far[s] >= cost_so_far[e[1]] + e[3]

\* C20: in every state of the search loop each came_from entry (p, a, c)
\* of a non-start state s has p in cost_so_far, a applicable to p with
\* effect s and cost c, and cost_so_far[s] >= cost_so_far[p] + c; the
\* entry of the start state stays the sentinel; no recorded cost ever
\* increases; and the reconstruction, walking an acyclic chain, visits
\* fewer states than are recorded before it reaches the sentinel.
C20_CameFromInvariant ==
    /\ [](result # "KeyError" => CameFromConsistent)
    /\ [](\A s \in DOMAIN came_from :
             ReachesStart(s, Cardinality(DOMAIN came_from)))
    /\ [](pc = "trace" => Len(path) < Cardinality(DOMAIN came_from))
    /\ [][\A s \in DOMAIN cost_so_far :
             /\ s \in DOMAIN cost_so_far'
             /\ cost_so_far'[s] <= cost_so_far[s]]_vars

C20_Witness ==
    /\ result = "plan"
    /\ Len(path) >= 3
    /\ \E s \in DOMAIN came_from :
          /\ s # StartState
          /\ cost_so_far[s] > cost_so_far[came_from[s][1]] + came_from[s][3]

====
